---- MODULE Spec2Model ----
(***************************************************************************)
(* The Unsplash plugin: credential validation (provider/unsplash.py),      *)
(* keyword search (tools/unsplash.py) and random photos (tools/random.py). *)
(*                                                                         *)
(* Credential validation and the photo normalizer are synchronous calls,   *)
(* each one action.  The two _invoke methods are generators: calling one   *)
(* runs nothing; each next() of the host runs the code up to the next      *)
(* yield, and the host may stop asking at any yield.  The log of a call    *)
(* (the HTTP requests it sent and the messages it yielded, in order) grows *)
(* by one such stretch per step.                                           *)
(*                                                                         *)
(* Python values are tagged records:                                       *)
(*   [t |-> "none"]              None                                      *)
(*   [t |-> "bool",  b |-> B]    True / False                              *)
(*   [t |-> "int",   v |-> n]    the integer n                             *)
(*   [t |-> "float", h |-> n]    the float n/2 (halves)                    *)
(*   [t |-> "str",   s |-> seq]  a string, as the sequence of its pieces;  *)
(*                               the piece " " is whitespace               *)
(*   [t |-> "list",  l |-> seq]  a list                                    *)
(*   [t |-> "dict",  d |-> f]    a dict: f maps the keys present           *)
(***************************************************************************)
EXTENDS Integers, Sequences, FiniteSets, TLC

\* op: the operation called ("idle" before the call); input: its argument (the
\* tool parameters, or the photo given to the normalizer); credentials: the
\* credentials mapping; response: the upstream answer to the metadata request;
\* trace: the requests sent and the messages yielded so far, in order; result:
\* the value returned; outcome: whether the call is running and how it ended;
\* hosts: the state of the image host at each download made so far
VARIABLES op, input, credentials, response, trace, result, outcome, hosts

vars == <<op, input, credentials, response, trace, result, outcome, hosts>>

\* The largest number of photos in an upstream response of the model.
MaxPhotos == 2

----------------------------------------------------------------------------
\* Python values

PyNone == [t |-> "none"]
PyBool(x) == [t |-> "bool", b |-> x]
PyInt(n) == [t |-> "int", v |-> n]
PyFloat(halves) == [t |-> "float", h |-> halves]
PyStr(pieces) == [t |-> "str", s |-> pieces]
PyList(items) == [t |-> "list", l |-> items]
PyDict(f) == [t |-> "dict", d |-> f]
EmptyDict == PyDict([k \in {} |-> PyNone])

\* bool(x)
Truthy(x) ==
    CASE x.t = "none" -> FALSE
      [] x.t = "bool" -> x.b
      [] x.t = "int" -> x.v # 0
      [] x.t = "float" -> x.h # 0
      [] x.t = "str" -> Len(x.s) > 0
      [] x.t = "list" -> Len(x.l) > 0
      [] x.t = "dict" -> DOMAIN x.d # {}

\* isinstance(x, (int, float)): bool is a subclass of int
IsNumber(x) == x.t \in {"int", "float", "bool"}

\* A number as a count of halves, so that ints and floats compare
Halves(x) ==
    CASE x.t = "int" -> 2 * x.v
      [] x.t = "float" -> x.h
      [] x.t = "bool" -> IF x.b THEN 2 ELSE 0

\* int(x) of a number: truncation towards zero
IntOf(x) ==
    LET hv == Halves(x) IN IF hv >= 0 THEN hv \div 2 ELSE -((-hv) \div 2)

Min(a, b) == IF a <= b THEN a ELSE b

\* str.strip(): drop the leading and trailing whitespace
RECURSIVE LStrip(_)
LStrip(s) == IF s # <<>> /\ Head(s) = " " THEN LStrip(Tail(s)) ELSE s
RECURSIVE RStrip(_)
RStrip(s) ==
    IF s # <<>> /\ s[Len(s)] = " " THEN RStrip(SubSeq(s, 1, Len(s) - 1)) ELSE s
Strip(s) == RStrip(LStrip(s))

\* type(x).__name__, as error messages quote it
TypeName(x) ==
    CASE x.t = "none" -> "NoneType"
      [] x.t = "bool" -> "bool"
      [] x.t = "int" -> "int"
      [] x.t = "float" -> "float"
      [] x.t = "str" -> "str"
      [] x.t = "list" -> "list"
      [] x.t = "dict" -> "dict"

\* The text an f-string puts for {x}; the values the model formats are None,
\* booleans, integers and strings
Render(x) ==
    CASE x.t = "none" -> <<"None">>
      [] x.t = "bool" -> IF x.b THEN <<"True">> ELSE <<"False">>
      [] x.t = "int" -> <<ToString(x.v)>>
      [] x.t = "str" -> x.s

\* dict.get(key, default) on a mapping of the keys present
Get(f, key, default) == IF key \in DOMAIN f THEN f[key] ELSE default

\* len(x) for the values that have one: the items of a list, the keys of a dict,
\* the characters of a str (a str whose length is taken is written one
\* character a piece)
HasLen(x) == x.t \in {"list", "dict", "str"}
PyLen(x) ==
    CASE x.t = "list" -> Len(x.l)
      [] x.t = "dict" -> Cardinality(DOMAIN x.d)
      [] x.t = "str" -> Len(x.s)

\* for item in x: the items of a list, the keys of a dict, the characters of a
\* str.  The keys of the model's dicts are strings; their order is not modelled
\* (any one order is taken).
Items(x) ==
    CASE x.t = "list" -> x.l
      [] x.t = "str" -> [i \in 1..Len(x.s) |-> PyStr(<<x.s[i]>>)]
      [] x.t = "dict" ->
            LET keys == CHOOSE f \in [1..Cardinality(DOMAIN x.d) -> DOMAIN x.d] :
                            \A i, j \in DOMAIN f : f[i] = f[j] => i = j
            IN  [i \in DOMAIN keys |-> PyStr(<<keys[i]>>)]

----------------------------------------------------------------------------
\* Exceptions: the class, and the text str(e) gives (a sequence of pieces)

NoExc == [cls |-> "none", msg |-> <<>>]
Raise(c, m) == [cls |-> c, msg |-> m]
Raised(e) == e.cls # "none"

\* x.get(...) on a value that is no dict
NoGet(x) ==
    Raise("AttributeError",
          <<"'", TypeName(x), "' object has no attribute 'get'">>)

\* len(x) and iteration over a value that has neither
NoLen(x) ==
    Raise("TypeError", <<"object of type '", TypeName(x), "' has no len()">>)
NotIterable(x) ==
    Raise("TypeError", <<"'", TypeName(x), "' object is not iterable">>)

\* json.JSONDecodeError is a ValueError, and requests' JSONDecodeError is both it
\* and a RequestException
IsValueError(e) == e.cls \in {"ValueError", "JSONDecodeError"}
IsRequestException(e) ==
    e.cls \in {"HTTPError", "ConnectionError", "JSONDecodeError"}

\* response.raise_for_status(): an HTTPError for 4xx and 5xx
RaisesForStatus(status) == status >= 400 /\ status < 600

----------------------------------------------------------------------------
\* What a call does, in order: the HTTP requests it sends and the messages it
\* yields to the host

Request(url, params, auth) ==
    [k |-> "request", url |-> url, params |-> params, auth |-> auth]
Text(pieces) == [k |-> "text", text |-> pieces]
Json(payload) == [k |-> "json", json |-> payload]
Blob(data, meta) == [k |-> "blob", blob |-> data, meta |-> meta]
Variable(name, value) == [k |-> "variable", name |-> name, value |-> value]

API_BASE_URL == "https://api.unsplash.com"

Requests(tr) == SelectSeq(tr, LAMBDA e : e.k = "request")
Messages(tr) == SelectSeq(tr, LAMBDA e : e.k # "request")
OfKind(tr, kind) == SelectSeq(tr, LAMBDA e : e.k = kind)
Range(seq) == {seq[i] : i \in 1..Len(seq)}

----------------------------------------------------------------------------
\* Parameter validation

\* x <= n and x > n for a number x (int, float or bool) and an integer n
NumLE(x, n) == Halves(x) <= 2 * n
NumGT(x, n) == Halves(x) > 2 * n

Search_validate_parameters(tool_parameters) ==
    LET query == Get(tool_parameters, "query", PyNone)
        per_page == Get(tool_parameters, "per_page", PyInt(10))
    IN  IF ~Truthy(query) \/ query.t # "str" \/ Len(Strip(query.s)) = 0
        THEN Raise("ValueError", <<"Search query cannot be empty">>)
        ELSE IF ~IsNumber(per_page) \/ NumLE(per_page, 0) \/ NumGT(per_page, 30)
        THEN Raise("ValueError",
                   <<"Results per page must be an integer between 1 and 30">>)
        ELSE NoExc

Random_validate_parameters(tool_parameters) ==
    LET count == Get(tool_parameters, "count", PyInt(1))
    IN  IF ~IsNumber(count) \/ NumLE(count, 0) \/ NumGT(count, 30)
        THEN Raise("ValueError",
                   <<"Photo count must be an integer between 1 and 30">>)
        ELSE NoExc

----------------------------------------------------------------------------
\* The photo normalizer

\* photo.get(name, {}) for a dict photo: the default only when the key is missing
Section(photo, name) == Get(photo.d, name, EmptyDict)

\* The dict literal of _build_photo_object, its three nested sections being dicts
PhotoRecord(photo, urls, user, links) ==
    PyDict([id |-> Get(photo.d, "id", PyNone),
            description |-> Get(photo.d, "description", PyNone),
            alt_description |-> Get(photo.d, "alt_description", PyNone),
            width |-> Get(photo.d, "width", PyNone),
            height |-> Get(photo.d, "height", PyNone),
            color |-> Get(photo.d, "color", PyNone),
            likes |-> Get(photo.d, "likes", PyNone),
            created_at |-> Get(photo.d, "created_at", PyNone),
            updated_at |-> Get(photo.d, "updated_at", PyNone),
            urls |-> PyDict([raw |-> Get(urls.d, "raw", PyNone),
                             full |-> Get(urls.d, "full", PyNone),
                             regular |-> Get(urls.d, "regular", PyNone),
                             small |-> Get(urls.d, "small", PyNone),
                             thumb |-> Get(urls.d, "thumb", PyNone)]),
            user |-> PyDict([id |-> Get(user.d, "id", PyNone),
                             name |-> Get(user.d, "name", PyNone),
                             username |-> Get(user.d, "username", PyNone),
                             portfolio_url |-> Get(user.d, "portfolio_url", PyNone),
                             profile_image |-> Get(user.d, "profile_image", PyNone)]),
            links |-> PyDict([self |-> Get(links.d, "self", PyNone),
                              html |-> Get(links.d, "html", PyNone),
                              download |-> Get(links.d, "download", PyNone),
                              download_location |->
                                  Get(links.d, "download_location", PyNone)])])

\* _build_photo_object: [exc, val].  photo.get and photo.get(section, {}).get
\* raise AttributeError on a value that is no dict; the literal is evaluated in
\* order, so the first such section is the one reported.
Search_build_photo_object(photo) ==
    IF photo.t # "dict" THEN [exc |-> NoGet(photo), val |-> PyNone]
    ELSE LET urls == Section(photo, "urls")
             user == Section(photo, "user")
             links == Section(photo, "links")
             bad == SelectSeq(<<urls, user, links>>, LAMBDA x : x.t # "dict")
         IN  IF bad # <<>> THEN [exc |-> NoGet(bad[1]), val |-> PyNone]
             ELSE [exc |-> NoExc, val |-> PhotoRecord(photo, urls, user, links)]

Random_build_photo_object(photo) ==
    IF photo.t # "dict" THEN [exc |-> NoGet(photo), val |-> PyNone]
    ELSE LET urls == Section(photo, "urls")
             user == Section(photo, "user")
             links == Section(photo, "links")
             bad == SelectSeq(<<urls, user, links>>, LAMBDA x : x.t # "dict")
         IN  IF bad # <<>> THEN [exc |-> NoGet(bad[1]), val |-> PyNone]
             ELSE [exc |-> NoExc, val |-> PhotoRecord(photo, urls, user, links)]

----------------------------------------------------------------------------
\* Image download

\* The image host.  While it is up it serves every URL but UrlGone, for which
\* it answers 404; while it is down it answers 404 for every URL.  Its state
\* can differ from one download of a call to the next.
UrlOk == PyStr(<<"https://images.example/ok">>)
UrlGone == PyStr(<<"https://images.example/gone">>)
HostStates == {"up", "down"}
ImageHostStatus(url, host) ==
    IF url = UrlGone.s \/ host = "down" THEN 404 ELSE 200

\* host_states lists the state of the image host at the first, second, ... download
\* of a call; its last state stands for every later download
HostAt(host_states, k) == host_states[Min(k, Len(host_states))]

HTTPError(status) ==
    Raise("HTTPError",
          <<ToString(status),
            IF status < 500 THEN " Client Error" ELSE " Server Error">>)

\* _download_image: [exc, content]; it logs and re-raises whatever the GET raises
download_image(url, host) ==
    LET status == ImageHostStatus(url, host)
    IN  IF RaisesForStatus(status)
        THEN [exc |-> HTTPError(status), content |-> PyNone]
        ELSE [exc |-> NoExc, content |-> [t |-> "bytes", s |-> url]]

----------------------------------------------------------------------------
\* The per-photo part of _invoke

\* a or b
Or(a, b) == IF Truthy(a) THEN a ELSE b

\* The try block around one image: the download, the blob message and the
\* photo detail; any exception in it becomes one "Failed to process image" text.
\* photo is a dict whose urls, user and links are dicts (the normalizer passed).
\* host is the state of the image host when the download is made.
\* [trace, detail]: detail is <<>> or the one photo detail appended.
ProcessImage(photo, image_url, file_prefix, host) ==
    LET get == Request(image_url.s, PyNone, <<>>)
        dl == download_image(image_url.s, host)
        user == Section(photo, "user")
        description ==
            Or(Get(photo.d, "description", PyNone),
               Or(Get(photo.d, "alt_description", PyNone),
                  PyStr(<<"Photo by ">>
                        \o Render(Get(user.d, "name", PyStr(<<"Unknown">>))))))
        photo_id == Get(photo.d, "id", PyStr(<<"photo">>))
        filename == PyStr(<<file_prefix>> \o Render(photo_id) \o <<".jpg">>)
        blob == Blob(dl.content,
                     [mime_type |-> PyStr(<<"image/jpeg">>),
                      filename |-> filename,
                      description |-> description])
        user_name == Get(user.d, "name", PyStr(<<"Unknown">>))
        user_links == Get(user.d, "links", EmptyDict)
        photo_link == Get(Section(photo, "links").d, "html", PyStr(<<>>))
        dimensions ==
            PyStr(Render(Get(photo.d, "width", PyStr(<<"Unknown">>))) \o <<"x">>
                  \o Render(Get(photo.d, "height", PyStr(<<"Unknown">>))))
        Failed(e) == Text(<<"Failed to process image: ">> \o e.msg)
    IN  IF Raised(dl.exc)
        THEN [trace |-> <<get, Failed(dl.exc)>>, detail |-> <<>>]
        ELSE IF user_links.t # "dict"
        THEN [trace |-> <<get, blob, Failed(NoGet(user_links))>>, detail |-> <<>>]
        ELSE [trace |-> <<get, blob>>,
              detail |->
                  <<PyDict([id |-> Get(photo.d, "id", PyNone),
                            description |-> description,
                            dimensions |-> dimensions,
                            author |-> user_name,
                            photo_link |-> photo_link,
                            user_link |-> Get(user_links.d, "html", PyStr(<<>>)),
                            license |->
                                PyStr(<<"Unsplash License - https://unsplash.com/license">>)])>>]

\* One pass of the loop body, given the normalizer's result for the photo:
\* [exc, trace, photos, details], the lists being what the pass appends
\* Variant: an image that gave no photo detail is tried a second time
ProcessPhoto_retry(photo, built, file_prefix, host) ==
    IF Raised(built.exc)
    THEN [exc |-> built.exc, trace |-> <<>>, photos |-> <<>>, details |-> <<>>]
    ELSE LET image_url == Get(Section(photo, "urls").d, "regular", PyNone)
             img == IF Truthy(image_url)
                    THEN ProcessImage(photo, image_url, file_prefix, host)
                    ELSE [trace |-> <<>>, detail |-> <<>>]
         IN  [exc |-> NoExc,
              trace |-> IF img.detail = <<>> THEN img.trace \o img.trace
                        ELSE img.trace,
              photos |-> <<built.val>>, details |-> img.detail]
ProcessPhoto(photo, built, file_prefix, host) ==
    IF Raised(built.exc)
    THEN [exc |-> built.exc, trace |-> <<>>, photos |-> <<>>, details |-> <<>>]
    ELSE LET image_url == Get(Section(photo, "urls").d, "regular", PyNone)
             img == IF Truthy(image_url)
                    THEN ProcessImage(photo, image_url, file_prefix, host)
                    ELSE [trace |-> <<>>, detail |-> <<>>]
         IN  [exc |-> NoExc, trace |-> img.trace,
              photos |-> <<built.val>>, details |-> img.detail]

\* for photo in results (search): from the i-th photo on, acc being
\* [exc, trace, photos, details] so far; an exception ends the loop.  The next
\* download is the one after those the loop has made.
RECURSIVE Search_photo_loop(_, _, _, _)
Search_photo_loop(results, i, acc, host_states) ==
    IF i > Len(results) \/ Raised(acc.exc) THEN acc
    ELSE LET r == ProcessPhoto(results[i],
                               Search_build_photo_object(results[i]), "unsplash_",
                               HostAt(host_states, Len(Requests(acc.trace)) + 1))
         IN  Search_photo_loop(results, i + 1,
                 [exc |-> r.exc, trace |-> acc.trace \o r.trace,
                  photos |-> acc.photos \o r.photos,
                  details |-> acc.details \o r.details], host_states)

\* for photo in photos_data (random)
RECURSIVE Random_photo_loop(_, _, _, _)
Random_photo_loop(photos_data, i, acc, host_states) ==
    IF i > Len(photos_data) \/ Raised(acc.exc) THEN acc
    ELSE LET r == ProcessPhoto(photos_data[i],
                               Random_build_photo_object(photos_data[i]),
                               "unsplash_random_",
                               HostAt(host_states, Len(Requests(acc.trace)) + 1))
         IN  Random_photo_loop(photos_data, i + 1,
                 [exc |-> r.exc, trace |-> acc.trace \o r.trace,
                  photos |-> acc.photos \o r.photos,
                  details |-> acc.details \o r.details], host_states)

EmptyLoop == [exc |-> NoExc, trace |-> <<>>, photos |-> <<>>, details |-> <<>>]

----------------------------------------------------------------------------
\* The upstream API's answer to the one metadata request of a call:
\*   [kind |-> "transport"]  no answer (connection error, timeout)
\*   [kind |-> "http", status, body]  an answer; body.decodes says whether the
\*       body is JSON, and body.json is then the decoded value
\*   [kind |-> "unrequested"]  the call sent no request

NoBody == [decodes |-> FALSE, json |-> PyNone]
JsonBody(value) == [decodes |-> TRUE, json |-> value]
Unrequested == [kind |-> "unrequested", status |-> 0, body |-> NoBody]
TransportFailure == [kind |-> "transport", status |-> 0, body |-> NoBody]
HttpResponse(status, body) == [kind |-> "http", status |-> status, body |-> body]

\* requests.get(...); response.raise_for_status(); response.json(): [exc, data]
FetchJson(resp) ==
    IF resp.kind = "transport"
    THEN [exc |-> Raise("ConnectionError", <<"connection failed">>), data |-> PyNone]
    ELSE IF RaisesForStatus(resp.status)
    THEN [exc |-> HTTPError(resp.status), data |-> PyNone]
    ELSE IF ~resp.body.decodes
    THEN [exc |-> Raise("JSONDecodeError", <<"Expecting value">>), data |-> PyNone]
    ELSE [exc |-> NoExc, data |-> resp.body.json]

\* The optional request parameters: a key is added when its value is truthy
Optional(key, value) == IF Truthy(value) THEN (key :> value) ELSE <<>>

\* The three messages (four in search) every except clause yields
\* Variant: the JSON message yielded before the text
FailureMessages_json_first(prefix, e, variables) ==
    LET error_message == PyStr(<<prefix>> \o e.msg)
    IN  <<Json(PyDict([error |-> error_message])), Text(error_message.s)>>
        \o variables
FailureMessages(prefix, e, variables) ==
    LET error_message == PyStr(<<prefix>> \o e.msg)
    IN  <<Text(error_message.s), Json(PyDict([error |-> error_message]))>>
        \o variables

\* The except clauses of _invoke, applied to what the try block did: [exc, trace].
\* The clauses are tried in order; the last one catches every Exception.
\* Variant: the RequestException clause left out, so that the last clause takes
\* request failures
Handle_no_request_clause(try, value_prefix, request_prefix, other_prefix, variables) ==
    IF ~Raised(try.exc) THEN [exc |-> NoExc, trace |-> try.trace]
    ELSE IF IsValueError(try.exc)
    THEN [exc |-> NoExc,
          trace |-> try.trace \o FailureMessages(value_prefix, try.exc, variables)]
    ELSE [exc |-> NoExc,
          trace |-> try.trace \o FailureMessages(other_prefix, try.exc, variables)]
\* Variant: the last clause left out, so that other exceptions leave the call
Handle_no_catch_all(try, value_prefix, request_prefix, other_prefix, variables) ==
    IF ~Raised(try.exc) THEN [exc |-> NoExc, trace |-> try.trace]
    ELSE IF IsValueError(try.exc)
    THEN [exc |-> NoExc,
          trace |-> try.trace \o FailureMessages(value_prefix, try.exc, variables)]
    ELSE IF IsRequestException(try.exc)
    THEN [exc |-> NoExc,
          trace |-> try.trace \o FailureMessages(request_prefix, try.exc, variables)]
    ELSE [exc |-> try.exc, trace |-> try.trace]
Handle(try, value_prefix, request_prefix, other_prefix, variables) ==
    IF ~Raised(try.exc) THEN [exc |-> NoExc, trace |-> try.trace]
    ELSE IF IsValueError(try.exc)
    THEN [exc |-> NoExc,
          trace |-> try.trace \o FailureMessages(value_prefix, try.exc, variables)]
    ELSE IF IsRequestException(try.exc)
    THEN [exc |-> NoExc,
          trace |-> try.trace \o FailureMessages(request_prefix, try.exc, variables)]
    ELSE [exc |-> NoExc,
          trace |-> try.trace \o FailureMessages(other_prefix, try.exc, variables)]

----------------------------------------------------------------------------
\* Search

\* The messages of "if not results": the empty result, total 0 whatever the
\* answer said
\* Variant: the total left out of the JSON and of the variables
Search_no_results_no_total(search_parameters) ==
    <<Json(PyDict([photos |-> PyList(<<>>),
                   total_pages |-> PyInt(0),
                   error |-> PyNone,
                   search_parameters |-> search_parameters])),
      Variable("photos", PyList(<<>>))>>
Search_no_results(search_parameters) ==
    <<Json(PyDict([photos |-> PyList(<<>>),
                   total |-> PyInt(0),
                   total_pages |-> PyInt(0),
                   error |-> PyNone,
                   search_parameters |-> search_parameters])),
      Variable("photos", PyList(<<>>)),
      Variable("total_results", PyInt(0))>>

\* The try block of UnsplashTool._invoke: [exc, trace].  results is whatever the
\* answer holds: len(results) needs a list, dict or str, "not results" takes
\* every falsy value, and the loop iterates a list, a dict's keys or a str's
\* characters.
Search_try(tool_parameters, creds, resp, host_states) ==
    LET invalid == Search_validate_parameters(tool_parameters)
        query == Get(tool_parameters, "query", PyNone)
        per_page == PyInt(Min(IntOf(Get(tool_parameters, "per_page", PyInt(10))), 30))
        orientation == Get(tool_parameters, "orientation", PyNone)
        color == Get(tool_parameters, "color", PyNone)
        access_key == Get(creds, "access_key", PyNone)
        params == [query |-> query, per_page |-> per_page, page |-> PyInt(1)]
                  @@ Optional("orientation", orientation) @@ Optional("color", color)
        get == Request(<<API_BASE_URL, "/search/photos">>, PyDict(params),
                       <<"Client-ID ">> \o Render(access_key))
        fetched == FetchJson(resp)
        data == fetched.data
        results == Get(data.d, "results", PyList(<<>>))
        total == Get(data.d, "total", PyInt(0))
        total_pages == Get(data.d, "total_pages", PyInt(0))
        search_params ==
            <<"query='">> \o Render(query) \o <<"'">>
            \o (IF Truthy(orientation)
                THEN <<", orientation='">> \o Render(orientation) \o <<"'">>
                ELSE <<>>)
            \o (IF Truthy(color)
                THEN <<", color='">> \o Render(color) \o <<"'">> ELSE <<>>)
        search_parameters ==
            PyDict([query |-> query, per_page |-> per_page,
                    orientation |-> orientation, color |-> color])
        summary ==
            IF NumGT(total, 0)
            THEN Text(<<"Found ">> \o Render(total) \o <<" photos for ">>
                      \o search_params
                      \o <<". Showing ", ToString(PyLen(results)), " results.">>)
            ELSE Text(<<"No photos found for ">> \o search_params
                      \o <<". Please try different keywords.">>)
        loop == Search_photo_loop(Items(results), 1, EmptyLoop, host_states)
    IN  IF Raised(invalid) THEN [exc |-> invalid, trace |-> <<>>]
        ELSE IF Raised(fetched.exc) THEN [exc |-> fetched.exc, trace |-> <<get>>]
        ELSE IF data.t # "dict" THEN [exc |-> NoGet(data), trace |-> <<get>>]
        ELSE IF ~IsNumber(total)
        THEN [exc |-> Raise("TypeError",
                            <<"'>' not supported between instances of '",
                              TypeName(total), "' and 'int'">>),
              trace |-> <<get>>]
        ELSE IF NumGT(total, 0) /\ ~HasLen(results)
        THEN [exc |-> NoLen(results), trace |-> <<get>>]
        ELSE IF ~Truthy(results)
        THEN [exc |-> NoExc,
              trace |-> <<get, summary>> \o Search_no_results(search_parameters)]
        ELSE IF ~HasLen(results)
        THEN [exc |-> NotIterable(results), trace |-> <<get, summary>>]
        ELSE IF Raised(loop.exc)
        THEN [exc |-> loop.exc, trace |-> <<get, summary>> \o loop.trace]
        ELSE [exc |-> NoExc,
              trace |-> <<get, summary>> \o loop.trace
                        \o <<Json(PyDict([photos |-> PyList(loop.photos),
                                          total |-> total,
                                          total_pages |-> total_pages,
                                          error |-> PyNone,
                                          search_parameters |-> search_parameters,
                                          photo_details |-> PyList(loop.details)])),
                             Variable("photos", PyList(loop.photos)),
                             Variable("photo_details", PyList(loop.details)),
                             Variable("total_results", total)>>]

\* UnsplashTool._invoke: [exc, trace]
Search_invoke(tool_parameters, creds, resp, host_states) ==
    Handle(Search_try(tool_parameters, creds, resp, host_states),
           "Parameter error: ", "Unsplash API request error: ",
           "Error searching Unsplash: ",
           <<Variable("photos", PyList(<<>>)),
             Variable("total_results", PyInt(0))>>)

----------------------------------------------------------------------------
\* Random

\* The random endpoint answers one photo as an object and several as an array:
\* if not isinstance(photos_data, list): photos_data = [photos_data]
\* Variant: an object is not wrapped, so the loop goes over its keys
AsList_iterates_object(photos_data) ==
    IF photos_data.t = "dict"
    THEN PyList([i \in 1..Cardinality(DOMAIN photos_data.d) |-> PyStr(<<"key">>)])
    ELSE IF photos_data.t # "list" THEN PyList(<<photos_data>>) ELSE photos_data
AsList(photos_data) ==
    IF photos_data.t # "list" THEN PyList(<<photos_data>>) ELSE photos_data

\* ", ".join(param_desc)
RECURSIVE Join(_)
Join(parts) ==
    IF parts = <<>> THEN <<>>
    ELSE IF Len(parts) = 1 THEN parts[1]
    ELSE parts[1] \o <<", ">> \o Join(Tail(parts))

\* The try block of UnsplashRandomTool._invoke: [exc, trace]
Random_try(tool_parameters, creds, resp, host_states) ==
    LET invalid == Random_validate_parameters(tool_parameters)
        query == Get(tool_parameters, "query", PyNone)
        count == PyInt(Min(IntOf(Get(tool_parameters, "count", PyInt(1))), 30))
        orientation == Get(tool_parameters, "orientation", PyNone)
        color == Get(tool_parameters, "color", PyNone)
        access_key == Get(creds, "access_key", PyNone)
        params == [count |-> count]
                  @@ Optional("query", query)
                  @@ Optional("orientation", orientation) @@ Optional("color", color)
        get == Request(<<API_BASE_URL, "/photos/random">>, PyDict(params),
                       <<"Client-ID ">> \o Render(access_key))
        fetched == FetchJson(resp)
        photos_data == AsList(fetched.data)
        param_desc ==
            (IF Truthy(query)
             THEN <<(<<"query='">> \o Render(query) \o <<"'">>)>> ELSE <<>>)
            \o (IF Truthy(orientation)
                THEN <<(<<"orientation='">> \o Render(orientation) \o <<"'">>)>>
                ELSE <<>>)
            \o (IF Truthy(color)
                THEN <<(<<"color='">> \o Render(color) \o <<"'">>)>> ELSE <<>>)
        param_str ==
            IF param_desc # <<>> THEN Join(param_desc) ELSE <<"no filters applied">>
        summary ==
            Text(<<"Retrieved ", ToString(Len(photos_data.l)), " random photos (">>
                 \o param_str \o <<")">>)
        parameters ==
            PyDict([query |-> query, count |-> count,
                    orientation |-> orientation, color |-> color])
        loop == Random_photo_loop(photos_data.l, 1, EmptyLoop, host_states)
    IN  IF Raised(invalid) THEN [exc |-> invalid, trace |-> <<>>]
        ELSE IF Raised(fetched.exc) THEN [exc |-> fetched.exc, trace |-> <<get>>]
        ELSE IF ~Truthy(photos_data)
        THEN [exc |-> NoExc,
              trace |-> <<get, summary,
                          Json(PyDict([photos |-> PyList(<<>>),
                                       error |-> PyNone,
                                       parameters |-> parameters])),
                          Variable("random_photos", PyList(<<>>))>>]
        ELSE IF Raised(loop.exc)
        THEN [exc |-> loop.exc, trace |-> <<get, summary>> \o loop.trace]
        ELSE [exc |-> NoExc,
              trace |-> <<get, summary>> \o loop.trace
                        \o <<Json(PyDict([photos |-> PyList(loop.photos),
                                          error |-> PyNone,
                                          parameters |-> parameters,
                                          photo_details |-> PyList(loop.details)])),
                             Variable("random_photos", PyList(loop.photos)),
                             Variable("photo_details", PyList(loop.details))>>]

\* UnsplashRandomTool._invoke: [exc, trace]
Random_invoke(tool_parameters, creds, resp, host_states) ==
    Handle(Random_try(tool_parameters, creds, resp, host_states),
           "Parameter error: ", "Unsplash API request error: ",
           "Error retrieving random photos: ",
           <<Variable("random_photos", PyList(<<>>))>>)

----------------------------------------------------------------------------
\* Credential validation

\* The status checks on the answer to GET /photos: only 200 passes.
\* response.text is not modelled.
\* Variant: raise_for_status instead of the comparison with 200
Credentials_status_lenient(resp) ==
    IF RaisesForStatus(resp.status) THEN HTTPError(resp.status) ELSE NoExc
Credentials_status(resp) ==
    IF resp.status = 401
    THEN Raise("ValueError", <<"Invalid Unsplash Access Key">>)
    ELSE IF resp.status = 403
    THEN Raise("ValueError",
               <<"Unsplash API permission denied, please check your application status">>)
    ELSE IF resp.status = 429
    THEN Raise("ValueError",
               <<"Exceeded Unsplash API request limit, please try again later">>)
    ELSE IF resp.status # 200
    THEN Raise("ValueError",
               <<"API request failed, status code: ", ToString(resp.status),
                 ", error: ", "<response.text>">>)
    ELSE NoExc

\* The try block of UnsplashProvider._validate_credentials: [exc, trace].
\* creds maps the keys present; resp is the answer to GET /photos.
\* Variant: the key is tested against None only, so "" goes on to the request
Credentials_try_none_only(creds, resp) ==
    LET access_key == Get(creds, "access_key", PyNone)
        get == Request(<<API_BASE_URL, "/photos">>, PyNone,
                       <<"Client-ID ">> \o Render(access_key))
    IN  IF access_key = PyNone
        THEN [exc |-> Raise("ValueError", <<"Unsplash Access Key cannot be empty">>),
              trace |-> <<>>]
        ELSE IF resp.kind = "transport"
        THEN [exc |-> Raise("ConnectionError", <<"connection failed">>),
              trace |-> <<get>>]
        ELSE [exc |-> Credentials_status(resp), trace |-> <<get>>]
Credentials_try(creds, resp) ==
    LET access_key == Get(creds, "access_key", PyNone)
        get == Request(<<API_BASE_URL, "/photos">>, PyNone,
                       <<"Client-ID ">> \o Render(access_key))
    IN  IF ~Truthy(access_key)
        THEN [exc |-> Raise("ValueError", <<"Unsplash Access Key cannot be empty">>),
              trace |-> <<>>]
        ELSE IF resp.kind = "transport"
        THEN [exc |-> Raise("ConnectionError", <<"connection failed">>),
              trace |-> <<get>>]
        ELSE [exc |-> Credentials_status(resp), trace |-> <<get>>]

\* UnsplashProvider._validate_credentials: [exc, trace].  Both except clauses
\* raise ToolProviderCredentialValidationError; RequestException is tried first.
validate_credentials(creds, resp) ==
    LET try == Credentials_try(creds, resp)
    IN  IF ~Raised(try.exc) THEN try
        ELSE IF IsRequestException(try.exc)
        THEN [exc |-> Raise("ToolProviderCredentialValidationError",
                            <<"API request exception: ">> \o try.exc.msg),
              trace |-> try.trace]
        ELSE [exc |-> Raise("ToolProviderCredentialValidationError",
                            <<"Credential validation failed: ">> \o try.exc.msg),
              trace |-> try.trace]

----------------------------------------------------------------------------
\* The inputs of the model

\* A key that the mapping does not hold
Absent == [t |-> "absent"]
\* The mapping of the keys that are present
Present(f) == [key \in {x \in DOMAIN f : f[x] # Absent} |-> f[key]]

QueryValues ==
    {Absent, PyStr(<<>>), PyStr(<<" ", " ">>), PyStr(<<"mountains">>), PyInt(5)}
\* per_page and count: missing, null, integers, the floats 0.5, 2.5 and 30.5,
\* True, and a string
SizeValues ==
    {Absent, PyNone, PyInt(-1), PyInt(0), PyInt(1), PyInt(30), PyInt(31),
     PyFloat(1), PyFloat(5), PyFloat(61), PyBool(TRUE), PyStr(<<"5">>)}
OrientationValues == {Absent, PyStr(<<"landscape">>)}
ColorValues == {Absent, PyStr(<<"red">>)}

\* Every query with every size, and the filters with a valid query
SearchParameters ==
    {Present([query |-> q, per_page |-> n]) : q \in QueryValues, n \in SizeValues}
    \cup {Present([query |-> PyStr(<<"mountains">>), orientation |-> o,
                   color |-> c]) :
             o \in OrientationValues, c \in ColorValues}
\* Every size, and the query and the filters with the default size
RandomParameters ==
    {Present([count |-> n]) : n \in SizeValues}
    \cup {Present([query |-> q, orientation |-> o, color |-> c]) :
             q \in {Absent, PyStr(<<"mountains">>)},
             o \in OrientationValues, c \in ColorValues}

ToolCredentials == [access_key |-> PyStr(<<"key">>)]
CredentialInputs ==
    {Present([access_key |-> a]) :
        a \in {Absent, PyNone, PyStr(<<>>), PyStr(<<"key">>), PyInt(7)}}
CredentialResponses ==
    {TransportFailure}
    \cup {HttpResponse(st, NoBody) : st \in {200, 204, 304, 401, 403, 404, 429, 500}}

\* Upstream photos.  A well-formed photo, and photos with a section missing or null
Author(name) ==
    PyDict([id |-> PyStr(<<"u1">>), name |-> PyStr(<<name>>),
            links |-> PyDict([html |-> PyStr(<<"https://unsplash.com/@", name>>)])])
PhotoLinks(id) == PyDict([html |-> PyStr(<<"https://unsplash.com/photos/", id>>)])
Photo(id, url, extra) ==
    PyDict([id |-> PyStr(<<id>>), width |-> PyInt(40), height |-> PyInt(30),
            urls |-> PyDict([regular |-> url]), user |-> Author("ann"),
            links |-> PhotoLinks(id)] @@ extra)
PhotoA == Photo("a", UrlOk, [description |-> PyStr(<<"a lake">>)])
PhotoB == Photo("b", UrlOk, <<>>)
PhotoGone == Photo("g", UrlGone, [alt_description |-> PyStr(<<"a hill">>)])
PhotoBare == PyDict([id |-> PyStr(<<"m">>)])
PhotoNullUrls == PyDict([urls |-> PyNone] @@ PhotoA.d)
PhotoNullUser == PyDict([user |-> PyNone] @@ PhotoA.d)
PhotoNullLinks == PyDict([links |-> PyNone] @@ PhotoA.d)
PhotoNullUserLinks ==
    PyDict([id |-> PyStr(<<"n">>),
            user |-> PyDict([name |-> PyStr(<<"bob">>), links |-> PyNone])]
           @@ PhotoA.d)
\* The photos of the upstream answers
Photos ==
    {PhotoA, PhotoB, PhotoGone, PhotoBare, PhotoNullUser, PhotoNullUserLinks}

\* The lists of at most n photos
PhotoLists(n) == UNION {[1..len -> Photos] : len \in 0..n}

\* The photos given to the normalizer alone: each section a dict, missing or null
SectionValues(section) == {Absent, PyNone, PhotoA.d[section]}
SectionPhotos ==
    {PyDict(Present([id |-> PyStr(<<"a">>), urls |-> u, user |-> w, links |-> l])) :
        u \in SectionValues("urls"), w \in SectionValues("user"),
        l \in SectionValues("links")}

\* The answers to a search: a JSON object with total and results present, null or
\* missing (results otherwise a list of photos, an object, the string 'ab' or
\* a number), every list of photos with a total of 57, other JSON, a body that
\* is no JSON, error statuses, a non-error status other than 200, no answer
SearchBodies ==
    {JsonBody(PyDict(Present([total |-> t, results |-> r]))) :
        t \in {Absent, PyNone, PyInt(0), PyInt(57)},
        r \in {Absent, PyNone, PyDict([a |-> PyInt(1)]), PyStr(<<"a", "b">>),
               PyInt(5), PyList(<<>>), PyList(<<PhotoA>>),
               PyList(<<PhotoGone, PhotoNullUserLinks>>)}}
    \cup {JsonBody(PyDict([total |-> PyInt(57), results |-> PyList(l)])) :
             l \in PhotoLists(MaxPhotos)}
    \cup {NoBody, JsonBody(PyList(<<>>)), JsonBody(PyNone)}
SearchResponses ==
    {TransportFailure, HttpResponse(404, NoBody), HttpResponse(500, NoBody),
     HttpResponse(304, NoBody),
     HttpResponse(304, JsonBody(PyDict([total |-> PyInt(0), results |-> PyList(<<>>)])))}
    \cup {HttpResponse(200, b) : b \in SearchBodies}

\* The answers to a random request: one photo as an object, or a list of photos
RandomBodies ==
    {JsonBody(p) : p \in Photos}
    \cup {JsonBody(PyList(l)) : l \in PhotoLists(MaxPhotos)}
    \cup {NoBody, JsonBody(PyNone)}
RandomResponses ==
    {TransportFailure, HttpResponse(404, NoBody), HttpResponse(500, NoBody),
     HttpResponse(304, NoBody)}
    \cup {HttpResponse(200, b) : b \in RandomBodies}

----------------------------------------------------------------------------
\* The state machine: one call per behaviour

\* The answers a call can get: an answer exists only if the call sends its
\* request, which does not depend on what the answer would be
Answers(tr, responses) ==
    IF Requests(tr) # <<>> THEN responses ELSE {Unrequested}

Running == [how |-> "running", exc |-> NoExc]
Returned == [how |-> "returned", exc |-> NoExc]
Closed == [how |-> "closed", exc |-> NoExc]
Ended(r) == IF Raised(r.exc) THEN [how |-> "raised", exc |-> r.exc] ELSE Returned

Init ==
    /\ op = "idle"
    /\ input = PyNone
    /\ credentials = <<>>
    /\ response = Unrequested
    /\ trace = <<>>
    /\ result = PyNone
    /\ outcome = [how |-> "idle", exc |-> NoExc]
    /\ hosts = <<>>

ValidateCredentials ==
    /\ op = "idle"
    /\ \E creds \in CredentialInputs :
         \E resp \in Answers(validate_credentials(creds, TransportFailure).trace,
                             CredentialResponses) :
            LET r == validate_credentials(creds, resp)
            IN  /\ op' = "validate_credentials"
                /\ input' = PyNone
                /\ credentials' = creds
                /\ response' = resp
                /\ trace' = r.trace
                /\ result' = PyNone
                /\ outcome' = Ended(r)
    /\ UNCHANGED hosts

\* tool.invoke(tool_parameters): the generator is created and nothing of
\* _invoke has run
Search ==
    /\ op = "idle"
    /\ \E tool_parameters \in SearchParameters :
         /\ op' = "search"
         /\ input' = PyDict(tool_parameters)
         /\ credentials' = ToolCredentials
         /\ outcome' = Running
    /\ UNCHANGED <<response, trace, result, hosts>>

Random ==
    /\ op = "idle"
    /\ \E tool_parameters \in RandomParameters :
         /\ op' = "random"
         /\ input' = PyDict(tool_parameters)
         /\ credentials' = ToolCredentials
         /\ outcome' = Running
    /\ UNCHANGED <<response, trace, result, hosts>>

\* The whole run of _invoke for an answer and the image host's states: [exc, trace]
Invoke(tool, tool_parameters, creds, resp, host_states) ==
    IF tool = "search"
    THEN Search_invoke(tool_parameters, creds, resp, host_states)
    ELSE Random_invoke(tool_parameters, creds, resp, host_states)

\* From what is left of a run, the stretch to the next yield: the requests sent
\* and the message yielded, or all of it when no message is left
Segment(rest) ==
    IF \E i \in 1..Len(rest) : rest[i].k # "request"
    THEN SubSeq(rest, 1, CHOOSE i \in 1..Len(rest) :
                            /\ rest[i].k # "request"
                            /\ \A j \in 1..(i - 1) : rest[j].k = "request")
    ELSE rest

\* next() on the generator: _invoke runs from where it is suspended to its next
\* yield, or to its end.  The answer to the metadata request is chosen in the
\* first step, the state of the image host in every step.
NextMessage ==
    /\ op \in {"search", "random"}
    /\ outcome = Running
    /\ \E host \in HostStates :
         \E resp \in (IF trace = <<>>
                      THEN Answers(Invoke(op, input.d, credentials, TransportFailure,
                                          <<host>>).trace,
                                   IF op = "search" THEN SearchResponses
                                   ELSE RandomResponses)
                      ELSE {response}) :
            \E run \in {Invoke(op, input.d, credentials, resp,
                                Append(hosts, host))} :
               \E segment \in {Segment(SubSeq(run.trace, Len(trace) + 1,
                                              Len(run.trace)))} :
                  /\ response' = resp
                  /\ trace' = trace \o segment
                  /\ hosts' = IF Len(Requests(trace \o segment)) > Len(hosts) + 1
                              THEN Append(hosts, host) ELSE hosts
                  /\ outcome' = IF segment # <<>>
                                   /\ segment[Len(segment)].k # "request"
                                THEN Running ELSE Ended(run)
    /\ UNCHANGED <<op, input, credentials, result>>

\* The host stops asking: the generator is closed where it is suspended (or
\* before it started).  GeneratorExit is no Exception, so no except clause of
\* _invoke takes it, and nothing more is sent or yielded.
Close ==
    /\ op \in {"search", "random"}
    /\ outcome = Running
    /\ outcome' = Closed
    /\ UNCHANGED <<op, input, credentials, response, trace, result, hosts>>

\* _build_photo_object called on its own, in either tool
BuildPhotoObject ==
    /\ op = "idle"
    /\ \E photo \in SectionPhotos, tool \in {"search", "random"} :
         LET r == IF tool = "search" THEN Search_build_photo_object(photo)
                  ELSE Random_build_photo_object(photo)
         IN  /\ op' = tool \o "._build_photo_object"
             /\ input' = photo
             /\ result' = r.val
             /\ outcome' = Ended(r)
    /\ UNCHANGED <<credentials, response, trace, hosts>>

Next ==
    \/ ValidateCredentials
    \/ Search
    \/ Random
    \/ NextMessage
    \/ Close
    \/ BuildPhotoObject

Spec == Init /\ [][Next]_vars

----------------------------------------------------------------------------
\* Vocabulary of the properties

IsInvoke == op \in {"search", "random"}
\* The call ran to its end: the host took every message
Finished == outcome.how \in {"returned", "raised"}
Msgs == Messages(trace)
\* The requests after the metadata request: the image downloads
Downloads == Tail(Requests(trace))
\* The k-th download was refused by the image host
DownloadFailed(k) ==
    RaisesForStatus(ImageHostStatus(Downloads[k].url, hosts[k]))
\* The page-size parameter as the caller gave it
SizeGiven ==
    IF op = "search" THEN Get(input.d, "per_page", Absent)
    ELSE Get(input.d, "count", Absent)
\* A number outside the closed range [1, 30]
OutOfRange(x) == IsNumber(x) /\ (Halves(x) < 2 \/ Halves(x) > 60)
\* The first message is the failure text of the given kind
FailsWith(prefix) ==
    Msgs # <<>> /\ Msgs[1].k = "text" /\ Msgs[1].text[1] = prefix
\* The metadata request failed: no answer, or an answer raise_for_status rejects
PrimaryFailed ==
    response.kind = "transport"
    \/ (response.kind = "http" /\ RaisesForStatus(response.status))
\* The metadata request was answered, passed raise_for_status and decoded
Decoded ==
    response.kind = "http" /\ ~RaisesForStatus(response.status)
    /\ response.body.decodes
\* The photos of the answer, when it decoded: the results of a search, the list
\* (or the one object) of a random answer
Answered ==
    IF op = "search"
    THEN IF response.body.json.t = "dict"
            /\ Get(response.body.json.d, "results", PyNone).t = "list"
         THEN response.body.json.d.results.l ELSE <<>>
    ELSE IF response.body.json.t = "list" THEN response.body.json.l
    ELSE <<response.body.json>>
\* The final JSON message, when there is one
JsonAt == CHOOSE i \in 1..Len(Msgs) : Msgs[i].k = "json"
HasJson == \E i \in 1..Len(Msgs) : Msgs[i].k = "json"
FailedTexts ==
    SelectSeq(Msgs, LAMBDA e : e.k = "text"
                               /\ e.text[1] = "Failed to process image: ")

----------------------------------------------------------------------------
\* C1: every per_page (search) or count (random) outside [1,30] - zero,
\* negative, above 30, or a fraction between 0 and 1 - fails parameter
\* validation, and the call sends no HTTP request.
C1_OutOfRangeRejected ==
    (IsInvoke /\ Finished /\ SizeGiven # Absent /\ OutOfRange(SizeGiven))
        => (Requests(trace) = <<>> /\ FailsWith("Parameter error: "))

\* C2 as stated: when the search request fails, one text and one JSON message
\* describe the failure, the JSON carries the error and empty photo/total lists,
\* and nothing follows the JSON message.
C2_FailureEndsAtJson ==
    (op = "search" /\ Finished /\ PrimaryFailed)
        => /\ Len(OfKind(Msgs, "text")) = 1
           /\ Len(OfKind(Msgs, "json")) = 1
           /\ Msgs[Len(Msgs)].k = "json"
           /\ Truthy(Get(Msgs[Len(Msgs)].json.d, "error", PyNone))
           /\ Get(Msgs[Len(Msgs)].json.d, "photos", PyNone) = PyList(<<>>)

\* C2 amended: when the search request gets no answer or a 4xx/5xx answer, the
\* messages are exactly: one text "Unsplash API request error: ...", one JSON
\* message holding only that error text, then the variables photos = [] and
\* total_results = 0.
C2_FailureMessages ==
    (op = "search" /\ Finished /\ PrimaryFailed)
        => /\ Len(Msgs) = 4
           /\ FailsWith("Unsplash API request error: ")
           /\ Len(Msgs[1].text) > 1
           /\ Msgs[2] = Json(PyDict([error |-> PyStr(Msgs[1].text)]))
           /\ Msgs[3] = Variable("photos", PyList(<<>>))
           /\ Msgs[4] = Variable("total_results", PyInt(0))
           /\ outcome = Returned
C2_Witness ==
    /\ op = "search" /\ Finished
    /\ response.kind = "http" /\ response.status = 500
    /\ Len(Requests(trace)) = 1 /\ Len(Msgs) = 4

\* The four messages of an empty search result
EmptySearchMessages ==
    /\ Len(Msgs) = 4
    /\ Msgs[1].k = "text"
    /\ Msgs[2].k = "json"
    /\ Get(Msgs[2].json.d, "photos", PyNone) = PyList(<<>>)
    /\ Get(Msgs[2].json.d, "total", PyNone) = PyInt(0)
    /\ Msgs[3] = Variable("photos", PyList(<<>>))
    /\ Msgs[4] = Variable("total_results", PyInt(0))

\* C3 as stated: a successful search whose answer has total = 0, whatever its
\* results, yields exactly: summary text, JSON with photos = [] and total = 0,
\* variable photos = [], variable total_results = 0.
C3_TotalZeroIsEmpty ==
    (op = "search" /\ Finished /\ Decoded /\ response.body.json.t = "dict"
     /\ Get(response.body.json.d, "total", PyNone) = PyInt(0))
        => EmptySearchMessages

\* C3 amended: a successful search whose answer has an empty or missing results
\* list and a total that is a number or missing yields exactly those four
\* messages, whatever the total is.
C3_NoResultsIsEmpty ==
    (op = "search" /\ Finished /\ Decoded /\ response.body.json.t = "dict"
     /\ Get(response.body.json.d, "results", PyList(<<>>)) = PyList(<<>>)
     /\ IsNumber(Get(response.body.json.d, "total", PyInt(0))))
        => (EmptySearchMessages /\ outcome = Returned)
C3_Witness ==
    /\ op = "search" /\ Finished /\ Decoded /\ response.body.json.t = "dict"
    /\ Get(response.body.json.d, "results", PyNone) = PyList(<<>>)
    /\ Get(response.body.json.d, "total", PyNone) = PyInt(57)
    /\ EmptySearchMessages

\* C4: if the download fails for exactly one of the N photos answered, the
\* others having a regular URL and a successful download, then the final JSON
\* has N photos and N-1 photo details, none for the failed photo; exactly one
\* error text is yielded, before the JSON; and the later photos are processed.
C4_OneFailedDownload ==
    (IsInvoke /\ Finished /\ Decoded /\ Len(Answered) >= 1
     /\ Len(Downloads) = Len(Answered)
     /\ Cardinality({i \in 1..Len(Downloads) : DownloadFailed(i)}) = 1)
        => /\ HasJson
           /\ Get(Msgs[JsonAt].json.d, "photos", PyList(<<>>)).l
                  = [i \in 1..Len(Answered) |->
                        Search_build_photo_object(Answered[i]).val]
           /\ LET details == Get(Msgs[JsonAt].json.d, "photo_details",
                                 PyList(<<>>)).l
                  served == SelectSeq([i \in 1..Len(Answered) |-> i],
                                      LAMBDA i : ~DownloadFailed(i))
              IN  [j \in 1..Len(details) |-> details[j].d.id]
                      = [j \in 1..Len(served) |-> Answered[served[j]].d.id]
           /\ Len(FailedTexts) = 1
           /\ \E i \in 1..JsonAt : Msgs[i] = FailedTexts[1]

\* C5: the normalizer returns a record, without raising, for every photo whose
\* urls, user and links are each a map, missing or null; a missing or null
\* section gives a group whose fields are all absent.
C5_NormalizerTotal ==
    (op \in {"search._build_photo_object", "random._build_photo_object"})
        => /\ outcome = Returned
           /\ \A section \in {"urls", "user", "links"} :
                 Get(input.d, section, PyNone) = PyNone
                     => \A f \in DOMAIN result.d[section].d :
                           result.d[section].d[f] = PyNone

\* C6: credentials whose access_key is missing, null or empty fail validation
\* with ToolProviderCredentialValidationError, and no HTTP request is sent.
C6_EmptyKeyRejected ==
    (op = "validate_credentials"
     /\ Get(credentials, "access_key", PyNone) \in {PyNone, PyStr(<<>>)})
        => /\ outcome.how = "raised"
           /\ outcome.exc.cls = "ToolProviderCredentialValidationError"
           /\ Requests(trace) = <<>>
C6_Witness ==
    /\ op = "validate_credentials"
    /\ Get(credentials, "access_key", PyNone) = PyStr(<<>>)
    /\ outcome.how = "raised"

\* C7: with a non-empty access_key, validation sends exactly one GET and returns
\* normally exactly when the status is 200; for every other status and for a
\* transport failure it raises ToolProviderCredentialValidationError.
C7_OnlyStatus200Passes ==
    (op = "validate_credentials" /\ Truthy(Get(credentials, "access_key", PyNone)))
        => /\ Len(Requests(trace)) = 1
           /\ Requests(trace)[1].url = <<API_BASE_URL, "/photos">>
           /\ (outcome = Returned)
                  <=> (response.kind = "http" /\ response.status = 200)
           /\ outcome # Returned
                  => /\ outcome.how = "raised"
                     /\ outcome.exc.cls = "ToolProviderCredentialValidationError"
C7_Witness ==
    /\ op = "validate_credentials" /\ response.kind = "http"
    /\ response.status = 204 /\ outcome.how = "raised"

\* C8: in random, an answer that is a single photo object P yields the same
\* messages, in order, as the answer [P] for the same parameters.
C8_ObjectAsOneElementList ==
    (op = "random" /\ Finished /\ Decoded /\ response.body.json.t = "dict")
        => Msgs = Messages(Random_invoke(input.d, credentials,
                               HttpResponse(response.status,
                                   JsonBody(PyList(<<response.body.json>>))),
                               Append(hosts, "up")).trace)
C8_Witness ==
    /\ op = "random" /\ Finished /\ Decoded /\ response.body.json.t = "dict"
    /\ Len(OfKind(Msgs, "blob")) = 1 /\ HasJson

\* C9: a search answered with N >= 1 results that all have a regular URL and all
\* download yields: the summary reporting the total and N; N blobs in the order
\* of the results; one JSON with N photos, N photo details and the upstream
\* total; then the variables photos, photo_details, total_results; nothing else.
C9_AllDownloaded ==
    (op = "search" /\ Finished /\ Decoded /\ Len(Answered) >= 1
     /\ Len(Downloads) = Len(Answered)
     /\ \A i \in 1..Len(Downloads) : ~DownloadFailed(i))
        => LET n == Len(Answered)
               total == Get(response.body.json.d, "total", PyInt(0))
           IN  /\ Len(Msgs) = n + 5
               /\ Msgs[1].k = "text" /\ Msgs[1].text[1] = "Found "
               /\ Msgs[1].text[2] = ToString(total.v)
               /\ Msgs[1].text[Len(Msgs[1].text) - 1] = ToString(n)
               /\ \A i \in 1..n :
                     /\ Msgs[i + 1].k = "blob"
                     /\ Msgs[i + 1].meta.filename
                            = PyStr(<<"unsplash_">> \o Answered[i].d.id.s
                                    \o <<".jpg">>)
               /\ Msgs[n + 2].k = "json"
               /\ Len(Msgs[n + 2].json.d.photos.l) = n
               /\ Len(Msgs[n + 2].json.d.photo_details.l) = n
               /\ Msgs[n + 2].json.d.total = total
               /\ Msgs[n + 3] = Variable("photos", Msgs[n + 2].json.d.photos)
               /\ Msgs[n + 4] = Variable("photo_details",
                                         Msgs[n + 2].json.d.photo_details)
               /\ Msgs[n + 5] = Variable("total_results", total)

\* C10: no call of search or random raises to the host: whatever the parameters,
\* the upstream answer and the download outcomes, the call returns normally with
\* at least one text message and one JSON message.
C10_NothingEscapes ==
    (IsInvoke /\ Finished)
        => /\ outcome = Returned
           /\ OfKind(Msgs, "text") # <<>>
           /\ OfKind(Msgs, "json") # <<>>
C10_Witness ==
    /\ op = "search" /\ Finished /\ Decoded
    /\ FailsWith("Found ")
    /\ \E i \in 1..Len(Msgs) :
          Msgs[i].k = "text" /\ Msgs[i].text[1] = "Error searching Unsplash: "

----------------------------------------------------------------------------
\* C11: a photo gets a blob exactly when it gets a photo detail: the number of
\* blobs equals the length of photo_details in the final JSON, and both are
\* produced only for photos whose regular URL was present and downloaded.
C11_BlobIffDetail ==
    (IsInvoke /\ Finished /\ HasJson)
        => /\ Len(OfKind(Msgs, "blob"))
                  = Len(Get(Msgs[JsonAt].json.d, "photo_details", PyList(<<>>)).l)
           /\ OfKind(Msgs, "blob") # <<>>
                  => Len(OfKind(Msgs, "blob"))
                         <= Cardinality({i \in 1..Len(Downloads) :
                                            ~DownloadFailed(i)})

\* C12: every call of search or random yields exactly one JSON message, on every
\* path; it comes after every text and blob message, and only variable messages
\* follow it.  (Exactly one once the call has run to its end; never a second
\* one, and never a text or blob after it, at any moment of the call.)
C12_OneJsonLast ==
    IsInvoke
        => /\ Len(OfKind(Msgs, "json")) <= 1
           /\ Finished => Len(OfKind(Msgs, "json")) = 1
           /\ HasJson
                  => \A i \in 1..Len(Msgs) :
                        /\ Msgs[i].k \in {"text", "blob"} => i < JsonAt
                        /\ i > JsonAt => Msgs[i].k = "variable"
C12_Witness ==
    /\ op = "random" /\ Finished /\ Decoded
    /\ Len(OfKind(Msgs, "blob")) = 1 /\ Msgs[2].k = "blob"
    /\ \E i \in 3..Len(Msgs) :
          /\ Msgs[i].k = "text"
          /\ Msgs[i].text[1] = "Error retrieving random photos: "
          /\ Msgs[i + 1].k = "json"

\* C13: a failure text beginning "Parameter error:" is yielded only by calls that
\* sent no HTTP request; a failure after the metadata request was sent (error
\* status, transport failure, undecodable body) is never reported as one.
C13_ParameterErrorBeforeRequest ==
    (IsInvoke /\ \E i \in 1..Len(Msgs) :
                    Msgs[i].k = "text" /\ Msgs[i].text[1] = "Parameter error: ")
        => Requests(trace) = <<>>

\* The regular URL of an answered photo, None when it has none
RegularUrl(photo) ==
    IF photo.t = "dict" /\ Section(photo, "urls").t = "dict"
    THEN Get(Section(photo, "urls").d, "regular", PyNone) ELSE PyNone
\* Whether a is b with some elements left out
RECURSIVE IsSubsequence(_, _)
IsSubsequence(a, b) ==
    IF a = <<>> THEN TRUE
    ELSE IF b = <<>> THEN FALSE
    ELSE IF Head(a) = Head(b) THEN IsSubsequence(Tail(a), Tail(b))
    ELSE IsSubsequence(a, Tail(b))
\* The metadata requests of the call: those to the API itself
MetadataRequests == SelectSeq(Requests(trace), LAMBDA r : r.url[1] = API_BASE_URL)

\* C14: a call of search or random sends at most one metadata request; no image
\* is downloaded before that request was answered successfully; each answered
\* photo is downloaded at most once, a failed download never again; the
\* downloads go one at a time in the order of the results; and there are no
\* more download attempts than answered photos.
C14_SequentialDownloads ==
    IsInvoke
        => /\ Len(MetadataRequests) <= 1
           /\ Len(Requests(trace)) > Len(MetadataRequests)
                  => /\ trace[1] = MetadataRequests[1]
                     /\ Decoded
                     /\ Len(Downloads) <= Len(Answered)
                     /\ IsSubsequence(
                            [i \in 1..Len(Downloads) |-> Downloads[i].url],
                            [i \in 1..Len(Answered) |->
                                Render(RegularUrl(Answered[i]))])
                     /\ \A p \in 2..Len(trace) :
                           trace[p].k = "request"
                               => /\ p < Len(trace)
                                  /\ \/ trace[p + 1].k = "blob"
                                     \/ /\ trace[p + 1].k = "text"
                                        /\ trace[p + 1].text[1]
                                               = "Failed to process image: "
C14_Witness ==
    /\ op = "search" /\ Finished /\ Decoded /\ Len(Answered) = 2
    /\ Len(Downloads) = 2
    /\ Downloads[1].url = Downloads[2].url
    /\ DownloadFailed(1) /\ ~DownloadFailed(2)

====
